---- MODULE Spec2Model ----
(***************************************************************************)
(* Poll lifecycle and tally engine of PollingSystem.py: PollSystem (one    *)
(* poll: window, vote, report, to_dict/from_dict), PollManager (the store: *)
(* new_poll, get_active_polls, analyze_results, save_polls, load_polls)    *)
(* and User.respond_to_poll (the store-level vote).                        *)
(*                                                                         *)
(* Strings that are trimmed are sequences of one-character strings, dates  *)
(* are day numbers, the clock (datetime.now()) is an input of each call,   *)
(* and the save file is a sequence of JSON tokens, so that a write cut     *)
(* short is a prefix of the text json.dump would have produced.            *)
(***************************************************************************)
EXTENDS Integers, Sequences, FiniteSets, TLC

\* ---------------------------------------------------------------- bounds
MaxPolls == 2
MaxVotes == 2

\* ---------------------------------------------------------------- inputs
A == <<"a">>
B == <<"b">>
C == <<"c">>
SpASp == <<" ", "a", " ">>
OptionLists == {<<>>, <<A, B>>, <<SpASp, B>>}
VoteLabels == {A, C, SpASp}
Questions == {"Color?"}
Dates == {1, 2}
Times == 0 .. 3

Range(s) == {s[i] : i \in 1 .. Len(s)}

\* ------------------------------------------------------------ str.strip
IsSpace(c) == c = " "

RECURSIVE lstrip(_)
lstrip(s) == IF s # <<>> /\ IsSpace(Head(s)) THEN lstrip(Tail(s)) ELSE s

RECURSIVE rstrip(_)
rstrip(s) ==
    IF s # <<>> /\ IsSpace(s[Len(s)]) THEN rstrip(SubSeq(s, 1, Len(s) - 1)) ELSE s

strip(s) == rstrip(lstrip(s))

\* ----------------------------------------------------------- PollSystem
\* {option: 0 for option in options}
ZeroAnswers(options) == [o \in Range(options) |-> 0]

\* answers=None: None and the empty dict are both falsy in "answers or {...}",
\* so the absent argument is the empty mapping.
NoAnswers == <<>>

PollSystem(question, options, start_date, end_date, answers) ==
    [question   |-> question,
     options    |-> options,
     start_date |-> start_date,
     end_date   |-> end_date,
     answers    |-> IF DOMAIN answers # {} THEN answers ELSE ZeroAnswers(options)]

\* the end of the window taken as exclusive
poll_active_exclusive_end(p, now) == p.start_date <= now /\ now < p.end_date

poll_active(p, now) == p.start_date <= now /\ now <= p.end_date

\* the option looked up before the window is checked
vote_option_first(p, option, now) ==
    LET o == strip(option) IN
    IF o \notin Range(p.options) THEN [result |-> "invalid_option", poll |-> p]
    ELSE IF ~poll_active(p, now) THEN [result |-> "not_active", poll |-> p]
    ELSE IF o \notin DOMAIN p.answers THEN [result |-> "KeyError", poll |-> p]
    ELSE [result |-> "ok", poll |-> [p EXCEPT !.answers[o] = @ + 1]]

\* the label matched as typed
vote_no_strip(p, option, now) ==
    LET o == option IN
    IF ~poll_active(p, now) THEN [result |-> "not_active", poll |-> p]
    ELSE IF o \notin Range(p.options) THEN [result |-> "invalid_option", poll |-> p]
    ELSE IF o \notin DOMAIN p.answers THEN [result |-> "KeyError", poll |-> p]
    ELSE [result |-> "ok", poll |-> [p EXCEPT !.answers[o] = @ + 1]]

vote(p, option, now) ==
    LET o == strip(option) IN
    IF ~poll_active(p, now) THEN [result |-> "not_active", poll |-> p]
    ELSE IF o \notin Range(p.options) THEN [result |-> "invalid_option", poll |-> p]
    ELSE IF o \notin DOMAIN p.answers THEN [result |-> "KeyError", poll |-> p]
    ELSE [result |-> "ok", poll |-> [p EXCEPT !.answers[o] = @ + 1]]

\* datetime.isoformat / datetime.fromisoformat: fixed-width decimal fields
isoformat(d) == <<d \div 10, d % 10>>

IsIso(s) == Len(s) = 2 /\ \A k \in 1 .. 2 : s[k] \in 0 .. 9

fromisoformat(s) == 10 * s[1] + s[2]

AllKeys == {"question", "options", "start_date", "end_date", "answers"}

\* the tallies written as they were at creation
to_dict_zero_answers(p) ==
    [question   |-> p.question,
     options    |-> p.options,
     start_date |-> isoformat(p.start_date),
     end_date   |-> isoformat(p.end_date),
     answers    |-> ZeroAnswers(p.options),
     keys       |-> AllKeys]

to_dict(p) ==
    [question   |-> p.question,
     options    |-> p.options,
     start_date |-> isoformat(p.start_date),
     end_date   |-> isoformat(p.end_date),
     answers    |-> p.answers,
     keys       |-> AllKeys]

\* ----------------------------------------------------------- JSON text
NoDict ==
    [question |-> "", options |-> <<>>, start_date |-> <<>>, end_date |-> <<>>,
     answers |-> <<>>, keys |-> {}]

LB == [t |-> "[", v |-> NoDict]
RB == [t |-> "]", v |-> NoDict]
COMMA == [t |-> ",", v |-> NoDict]
NUM == [t |-> "num", v |-> NoDict]
FRAG == [t |-> "frag", v |-> NoDict]
Obj(d) == [t |-> "obj", v |-> d]

RECURSIVE json_items(_)
json_items(ds) ==
    IF ds = <<>> THEN <<>>
    ELSE IF Len(ds) = 1 THEN <<Obj(ds[1])>>
    ELSE <<Obj(ds[1]), COMMA>> \o json_items(Tail(ds))

json_dump(ds) == <<LB>> \o json_items(ds) \o <<RB>>

IsItem(tok) == tok.t \in {"obj", "num"}

IsArrayText(text) ==
    /\ Len(text) >= 2
    /\ text[1] = LB
    /\ text[Len(text)] = RB
    /\ \/ Len(text) = 2
       \/ /\ Len(text) % 2 = 1
          /\ \A k \in 2 .. Len(text) - 1 :
                IF k % 2 = 0 THEN IsItem(text[k]) ELSE text[k] = COMMA

json_load(text) ==
    IF Len(text) = 1 /\ IsItem(text[1])
    THEN [result |-> "ok",
          kind |-> IF text[1].t = "num" THEN "number" ELSE "object",
          items |-> text]
    ELSE IF IsArrayText(text)
    THEN [result |-> "ok", kind |-> "array",
          items |-> [i \in 1 .. (Len(text) - 1) \div 2 |-> text[2 * i]]]
    ELSE [result |-> "JSONDecodeError", kind |-> "none", items |-> <<>>]

NoPoll == PollSystem("", <<>>, 0, 0, NoAnswers)

\* the stored tallies not handed to the constructor
from_dict_no_answers(data) ==
    IF data.t # "obj" THEN [result |-> "AttributeError", poll |-> NoPoll]
    ELSE LET d == data.v IN
    IF "options" \notin d.keys THEN [result |-> "KeyError", poll |-> NoPoll]
    ELSE IF "question" \notin d.keys THEN [result |-> "KeyError", poll |-> NoPoll]
    ELSE IF "start_date" \notin d.keys THEN [result |-> "KeyError", poll |-> NoPoll]
    ELSE IF ~IsIso(d.start_date) THEN [result |-> "ValueError", poll |-> NoPoll]
    ELSE IF "end_date" \notin d.keys THEN [result |-> "KeyError", poll |-> NoPoll]
    ELSE IF ~IsIso(d.end_date) THEN [result |-> "ValueError", poll |-> NoPoll]
    ELSE [result |-> "ok",
          poll |-> PollSystem(d.question, d.options,
                              fromisoformat(d.start_date),
                              fromisoformat(d.end_date),
                              NoAnswers)]

from_dict(data) ==
    IF data.t # "obj" THEN [result |-> "AttributeError", poll |-> NoPoll]
    ELSE LET d == data.v IN
    IF "options" \notin d.keys THEN [result |-> "KeyError", poll |-> NoPoll]
    ELSE IF "question" \notin d.keys THEN [result |-> "KeyError", poll |-> NoPoll]
    ELSE IF "start_date" \notin d.keys THEN [result |-> "KeyError", poll |-> NoPoll]
    ELSE IF ~IsIso(d.start_date) THEN [result |-> "ValueError", poll |-> NoPoll]
    ELSE IF "end_date" \notin d.keys THEN [result |-> "KeyError", poll |-> NoPoll]
    ELSE IF ~IsIso(d.end_date) THEN [result |-> "ValueError", poll |-> NoPoll]
    ELSE [result |-> "ok",
          poll |-> PollSystem(d.question, d.options,
                              fromisoformat(d.start_date),
                              fromisoformat(d.end_date),
                              IF "answers" \in d.keys THEN d.answers
                              ELSE ZeroAnswers(d.options))]

\* ---------------------------------------------------------- PollManager
VARIABLES
    polls,        \* PollManager.polls: the in-memory sequence of polls
    file,         \* the save file: [exists, text]
    constructed,  \* a PollManager instance exists
    last,         \* the last call: its name, inputs and outcome
    persisted     \* history: the number of polls in the last write that completed

vars == <<polls, file, constructed, last, persisted>>

File(text) == [exists |-> TRUE, text |-> text]

Missing == [exists |-> FALSE, text |-> <<>>]

\* a record written by another tool: no "answers" key
ForeignDict == [to_dict(PollSystem("Color?", <<A, B>>, 1, 2, NoAnswers))
                    EXCEPT !.answers = <<>>, !.keys = AllKeys \ {"answers"}]

\* a record whose start_date is not an ISO date
BadDateDict == [to_dict(PollSystem("Color?", <<A, B>>, 1, 2, NoAnswers))
                    EXCEPT !.start_date = <<1>>]

InitialFiles ==
    {Missing, File(<<>>), File(<<FRAG>>), File(<<NUM>>), File(<<LB, NUM, RB>>),
     File(<<LB, Obj(ForeignDict), RB>>), File(<<LB, Obj(BadDateDict), RB>>)}

Call(op, result) ==
    [op |-> op, result |-> result, ref |-> {}, poll |-> 0, label |-> <<>>,
     now |-> 0, start_date |-> 0, end_date |-> 0]

\* json.dump([poll.to_dict() for poll in self.polls], f) on a file opened "w"
save_polls(ps) == File(json_dump([i \in 1 .. Len(ps) |-> to_dict(ps[i])]))

\* what the file holds when the write stops part-way: open(..., "w") has
\* truncated it, and a proper prefix of the text is out
Interrupted(ps) ==
    LET full == save_polls(ps).text IN
    {File(SubSeq(full, 1, k)) : k \in 0 .. Len(full) - 1}

\* the ways a call of save_polls can end: the write completes, or it stops
\* part-way with an OSError
WriteOutcomes(ps) ==
    {[file |-> save_polls(ps), result |-> "ok"]}
      \cup {[file |-> f, result |-> "OSError"] : f \in Interrupted(ps)}

FirstBad(rs) == CHOOSE i \in 1 .. Len(rs) :
                   /\ rs[i].result # "ok"
                   /\ \A j \in 1 .. i - 1 : rs[j].result = "ok"

\* json.JSONDecodeError left out of the except clause
load_polls_decode_error_uncaught(f, old) ==
    IF ~f.exists THEN [result |-> "ok", polls |-> <<>>]
    ELSE LET j == json_load(f.text) IN
    IF j.result = "JSONDecodeError" THEN [result |-> "JSONDecodeError", polls |-> old]
    ELSE IF j.kind = "number" THEN [result |-> "TypeError", polls |-> old]
    ELSE IF j.kind = "object"
    THEN IF j.items[1].v.keys = {} THEN [result |-> "ok", polls |-> <<>>]
         ELSE [result |-> "AttributeError", polls |-> old]
    ELSE LET rs == [i \in 1 .. Len(j.items) |-> from_dict(j.items[i])] IN
    IF \E i \in 1 .. Len(rs) : rs[i].result # "ok"
    THEN [result |-> rs[FirstBad(rs)].result, polls |-> old]
    ELSE [result |-> "ok", polls |-> [i \in 1 .. Len(rs) |-> rs[i].poll]]

\* load_polls: the polls and the outcome, given the file and the polls before
load_polls(f, old) ==
    IF ~f.exists THEN [result |-> "ok", polls |-> <<>>]
    ELSE LET j == json_load(f.text) IN
    IF j.result = "JSONDecodeError" THEN [result |-> "ok", polls |-> <<>>]
    ELSE IF j.kind = "number" THEN [result |-> "TypeError", polls |-> old]
    ELSE IF j.kind = "object"
    THEN IF j.items[1].v.keys = {} THEN [result |-> "ok", polls |-> <<>>]
         ELSE [result |-> "AttributeError", polls |-> old]
    ELSE LET rs == [i \in 1 .. Len(j.items) |-> from_dict(j.items[i])] IN
    IF \E i \in 1 .. Len(rs) : rs[i].result # "ok"
    THEN [result |-> rs[FirstBad(rs)].result, polls |-> old]
    ELSE [result |-> "ok", polls |-> [i \in 1 .. Len(rs) |-> rs[i].poll]]

\* [poll for poll in self.polls if poll.poll_active()], as references (indices)
get_active_polls(ps, now) ==
    SelectSeq([i \in 1 .. Len(ps) |-> i], LAMBDA i : poll_active(ps[i], now))

\* generate_report returns self.answers: the poll's own mapping, not a copy.
\* The result is the set of polls whose tallies the returned value refers to.
generate_report(i) == {i}

\* [{"question": ..., "results": poll.generate_report()} for poll in self.polls]
analyze_results(ps) == UNION {generate_report(i) : i \in 1 .. Len(ps)}

RECURSIVE SumOver(_, _)
SumOver(f, S) ==
    IF S = {} THEN 0
    ELSE LET x == CHOOSE y \in S : TRUE IN f[x] + SumOver(f, S \ {x})

RECURSIVE TotalVotes(_)
TotalVotes(ps) ==
    IF ps = <<>> THEN 0
    ELSE SumOver(Head(ps).answers, DOMAIN Head(ps).answers) + TotalVotes(Tail(ps))

Init ==
    /\ polls = <<>>
    /\ file \in InitialFiles
    /\ constructed = FALSE
    /\ last = Call("none", "ok")
    /\ persisted = 0

\* PollManager.__init__: self.polls = []; self.load_polls()
PollManagerInit ==
    LET r == load_polls(file, <<>>) IN
    /\ polls' = r.polls
    /\ constructed' = (r.result = "ok")
    /\ last' = Call("__init__", r.result)
    /\ UNCHANGED <<file, persisted>>

LoadPolls ==
    /\ constructed
    /\ LET r == load_polls(file, polls) IN
       /\ polls' = r.polls
       /\ last' = Call("load_polls", r.result)
    /\ UNCHANGED <<file, constructed, persisted>>

SavePolls ==
    /\ constructed
    /\ \E w \in WriteOutcomes(polls) :
          /\ file' = w.file
          /\ last' = Call("save_polls", w.result)
          /\ persisted' = IF w.result = "ok" THEN Len(polls) ELSE persisted
    /\ UNCHANGED <<polls, constructed>>

\* equal dates let through
invalid_window_strict(start_date, end_date) == start_date > end_date

\* if start_date >= end_date: raise ValueError
invalid_window(start_date, end_date) == start_date >= end_date

NewPoll(question, options, start_date, end_date) ==
    /\ constructed
    /\ Len(polls) < MaxPolls
    /\ LET c == [Call("new_poll", "ok") EXCEPT !.start_date = start_date,
                                               !.end_date = end_date]
       IN
       IF invalid_window(start_date, end_date)
       THEN /\ last' = [c EXCEPT !.result = "ValueError"]
            /\ UNCHANGED <<polls, file, persisted>>
       ELSE LET ps == Append(polls, PollSystem(question, options, start_date,
                                               end_date, NoAnswers))
            IN
            /\ polls' = ps
            /\ \E w \in WriteOutcomes(ps) :
                  /\ file' = w.file
                  /\ last' = [c EXCEPT !.poll = Len(ps), !.result = w.result]
                  /\ persisted' = IF w.result = "ok" THEN Len(ps) ELSE persisted
    /\ UNCHANGED constructed

\* PollSystem.vote called on a poll of the store (the reference new_poll and
\* get_active_polls hand out); nothing is persisted
Vote(i, label, now) ==
    /\ i \in 1 .. Len(polls)
    /\ TotalVotes(polls) < MaxVotes
    /\ LET r == vote(polls[i], label, now) IN
       /\ polls' = [polls EXCEPT ![i] = r.poll]
       /\ last' = [Call("vote", r.result) EXCEPT !.poll = i, !.label = label,
                                                  !.now = now]
    /\ UNCHANGED <<file, constructed, persisted>>

\* User.respond_to_poll: the active polls are listed at time t0, the user
\* picks poll_choice and a label, and the vote is applied at time now >= t0;
\* every exception is caught and printed
RespondToPoll ==
    /\ constructed
    /\ TotalVotes(polls) < MaxVotes
    /\ \E t0 \in Times :
       LET active_polls == get_active_polls(polls, t0) IN
       IF active_polls = <<>>
       THEN /\ last' = Call("respond_to_poll", "no_active_polls")
            /\ UNCHANGED <<polls, file, persisted>>
       ELSE \E poll_choice \in -1 .. MaxPolls - 1 :
            IF poll_choice < 0 \/ poll_choice >= Len(active_polls)
            THEN /\ last' = Call("respond_to_poll", "invalid_choice")
                 /\ UNCHANGED <<polls, file, persisted>>
            ELSE \E now \in {t \in Times : t0 <= t}, label \in VoteLabels :
                 LET i == active_polls[poll_choice + 1]
                     r == vote(polls[i], label, now)
                     c == [Call("respond_to_poll", r.result) EXCEPT !.poll = i]
                     ps == [polls EXCEPT ![i] = r.poll]
                 IN
                 IF r.result # "ok"
                 THEN /\ last' = c
                      /\ UNCHANGED <<polls, file, persisted>>
                 ELSE /\ polls' = ps
                      /\ \E w \in WriteOutcomes(ps) :
                            /\ file' = w.file
                            /\ last' = [c EXCEPT !.result = w.result]
                            /\ persisted' = IF w.result = "ok" THEN Len(ps)
                                            ELSE persisted
    /\ UNCHANGED constructed

GenerateReport(i) ==
    /\ i \in 1 .. Len(polls)
    /\ last' = [Call("generate_report", "ok") EXCEPT !.ref = generate_report(i)]
    /\ UNCHANGED <<polls, file, constructed, persisted>>

AnalyzeResults ==
    /\ constructed
    /\ last' = [Call("analyze_results", "ok") EXCEPT !.ref = analyze_results(polls)]
    /\ UNCHANGED <<polls, file, constructed, persisted>>

\* A caller that writes through the mapping it was handed by generate_report
\* or analyze_results: results[option] = count
CallerWrite(i, option, count) ==
    /\ i \in last.ref
    /\ i \in 1 .. Len(polls)
    /\ option \in DOMAIN polls[i].answers
    /\ polls[i].answers[option] # count
    /\ TotalVotes([polls EXCEPT ![i].answers[option] = count]) <= MaxVotes
    /\ polls' = [polls EXCEPT ![i].answers[option] = count]
    /\ last' = [Call("caller_write", "ok") EXCEPT !.poll = i, !.label = option]
    /\ UNCHANGED <<file, constructed, persisted>>

\* The program: the store behind the menu (create, vote, results), with its
\* save and load
Next ==
    \/ PollManagerInit
    \/ LoadPolls
    \/ SavePolls
    \/ \E q \in Questions, os \in OptionLists, s \in Dates, e \in Dates :
          NewPoll(q, os, s, e)
    \/ RespondToPoll
    \/ AnalyzeResults

Spec == Init /\ [][Next]_vars

\* PollSystem used directly: votes on the polls the store hands out
NextPoll ==
    \/ PollManagerInit
    \/ \E q \in Questions, os \in OptionLists, s \in Dates, e \in Dates :
          NewPoll(q, os, s, e)
    \/ \E i \in 1 .. MaxPolls, l \in VoteLabels, t \in Times : Vote(i, l, t)
    \/ \E i \in 1 .. MaxPolls : GenerateReport(i)

SpecPoll == Init /\ [][NextPoll]_vars

\* The store with a caller that keeps and writes the reported mappings
NextWithCaller ==
    \/ PollManagerInit
    \/ \E q \in Questions, os \in OptionLists, s \in Dates, e \in Dates :
          NewPoll(q, os, s, e)
    \/ \E i \in 1 .. MaxPolls : GenerateReport(i)
    \/ AnalyzeResults
    \/ \E i \in 1 .. MaxPolls, o \in {A, B, SpASp}, n \in 0 .. MaxVotes :
          CallerWrite(i, o, n)

SpecWithCaller == Init /\ [][NextWithCaller]_vars

\* ================================================================ claims
InWindow(p, now) == p.start_date <= now /\ now <= p.end_date

\* the step was a successful vote for option o of poll i: tallies[o] is one
\* more, and nothing else of the store differs
VoteCounted(i, o) ==
    /\ last'.result = "ok"
    /\ Len(polls') = Len(polls)
    /\ \A k \in 1 .. Len(polls) : k # i => polls'[k] = polls[k]
    /\ polls'[i].question = polls[i].question
    /\ polls'[i].options = polls[i].options
    /\ polls'[i].start_date = polls[i].start_date
    /\ polls'[i].end_date = polls[i].end_date
    /\ DOMAIN polls'[i].answers = DOMAIN polls[i].answers
    /\ o \in DOMAIN polls[i].answers
    /\ polls'[i].answers[o] = polls[i].answers[o] + 1
    /\ \A x \in DOMAIN polls[i].answers \ {o} :
          polls'[i].answers[x] = polls[i].answers[x]

C2_NotActiveFirst ==
    [][(/\ last'.op = "vote"
        /\ ~InWindow(polls[last'.poll], last'.now))
          => (last'.result = "not_active" /\ polls' = polls /\ file' = file)]_vars

\* a vote with a label that is no option, cast before the window opens, was
\* refused as not active
C2_Witness ==
    /\ last.op = "vote"
    /\ last.result = "not_active"
    /\ last.now < polls[last.poll].start_date
    /\ strip(last.label) \notin Range(polls[last.poll].options)

C4_InvalidWindowRejected ==
    [][(/\ last'.op = "new_poll"
        /\ last'.start_date >= last'.end_date)
          => (last'.result = "ValueError" /\ polls' = polls /\ file' = file)]_vars

\* new_poll with equal dates was refused by a store that holds a poll
C4_Witness ==
    /\ last.op = "new_poll"
    /\ last.result = "ValueError"
    /\ last.start_date = last.end_date
    /\ Len(polls) >= 1

\* the file holds exactly the records of ps, in order, with their tallies
HoldsCollection(f, ps) ==
    /\ f.exists
    /\ Len(f.text) = (IF ps = <<>> THEN 2 ELSE 2 * Len(ps) + 1)
    /\ f.text[1].t = "["
    /\ f.text[Len(f.text)].t = "]"
    /\ \A k \in 1 .. Len(ps) :
          LET tok == f.text[2 * k] IN
          /\ tok.t = "obj"
          /\ tok.v.keys = {"question", "options", "start_date", "end_date", "answers"}
          /\ tok.v.question = ps[k].question
          /\ tok.v.options = ps[k].options
          /\ tok.v.answers = ps[k].answers
          /\ Len(tok.v.start_date) = 2
          /\ 10 * tok.v.start_date[1] + tok.v.start_date[2] = ps[k].start_date
          /\ Len(tok.v.end_date) = 2
          /\ 10 * tok.v.end_date[1] + tok.v.end_date[2] = ps[k].end_date
    /\ \A k \in 1 .. Len(ps) - 1 : f.text[2 * k + 1].t = ","

\* C5: right after a successful new_poll or store-level vote the file holds
\* the serialization of the in-memory polls, in order and with the current
\* tallies; a vote that fails does not write the file.
C5_PersistedAfterMutation ==
    [][/\ (last'.op \in {"new_poll", "respond_to_poll"} /\ last'.result = "ok")
             => HoldsCollection(file', polls')
       /\ (/\ last'.op = "respond_to_poll"
           /\ last'.result \in {"not_active", "invalid_option", "KeyError",
                                "no_active_polls", "invalid_choice"})
             => (file' = file /\ polls' = polls)]_vars

\* a vote on the second of two polls was persisted
C5_Witness ==
    /\ last.op = "respond_to_poll"
    /\ last.result = "ok"
    /\ last.poll = 2
    /\ Len(polls) = 2
    /\ polls[2].answers[A] >= 1
    /\ HoldsCollection(file, polls)

\* C6: from_dict(to_dict(p)) has the question, options, dates and tallies of
\* p for every poll of the store, and load_polls right after a completed
\* save_polls yields the same polls in the same order.
C6_RoundTrip ==
    [][/\ \A i \in 1 .. Len(polls') :
             from_dict(Obj(to_dict(polls'[i]))) = [result |-> "ok", poll |-> polls'[i]]
       /\ (last.op = "save_polls" /\ last.result = "ok" /\ last'.op = "load_polls")
             => (last'.result = "ok" /\ polls' = polls)]_vars

\* two different polls, one with a vote, came back from load_polls
C6_Witness ==
    /\ last.op = "load_polls"
    /\ last.result = "ok"
    /\ Len(polls) = 2
    /\ polls[1] # polls[2]
    /\ TotalVotes(polls) >= 1
    /\ HoldsCollection(file, polls)

\* missing, empty, unparseable, or parsed but not an array of records
StructurallyInvalid(f) ==
    \/ ~f.exists
    \/ f.text = <<>>
    \/ json_load(f.text).result # "ok"
    \/ json_load(f.text).kind # "array"
    \/ \E k \in 1 .. Len(json_load(f.text).items) : json_load(f.text).items[k].t # "obj"

\* C7: loading (at construction or on reload) from a missing, empty or
\* structurally invalid file raises nothing and leaves polls empty.
C7_InvalidFileLoadsEmpty ==
    (last.op \in {"__init__", "load_polls"} /\ StructurallyInvalid(file))
       => (last.result = "ok" /\ polls = <<>>)

IsProperPrefix(s, t) == Len(s) < Len(t) /\ s = SubSeq(t, 1, Len(s))

\* C8 as stated: the write is atomic, so a reload never yields fewer polls
\* than the last completed write held.
C8_AtomicPersist ==
    Len(load_polls(file, <<>>).polls) >= persisted

\* C8 amended: the file is truncated and then written in order. A write that
\* completes leaves the complete new collection, which reloads as the polls
\* in memory; a write cut short leaves a proper prefix of the new text, which
\* does not parse, so a reload yields the empty sequence.
C8_TruncateThenWrite ==
    [][file' # file =>
          \/ /\ last'.result = "ok"
             /\ HoldsCollection(file', polls')
             /\ load_polls(file', <<>>) = [result |-> "ok", polls |-> polls']
          \/ /\ last'.result = "OSError"
             /\ file'.exists
             /\ IsProperPrefix(file'.text, save_polls(polls').text)
             /\ load_polls(file', polls') = [result |-> "ok", polls |-> <<>>]]_vars

\* a store-level vote whose write stopped after the first of two records,
\* both of which had been persisted before
C8_Witness ==
    /\ last.op = "respond_to_poll"
    /\ last.result = "OSError"
    /\ Len(polls) = 2
    /\ persisted = 2
    /\ Len(file.text) = 2
    /\ file.text[2].t = "obj"
    /\ load_polls(file, <<>>).polls = <<>>

\* C9: writing to the mapping returned by generate_report or analyze_results
\* changes no tally of the store.
C9_ReportIsSnapshot ==
    [][last'.op = "caller_write" => polls' = polls]_vars

\* C10: no poll of the store has an empty options sequence.
C10_OptionsNonEmpty ==
    \A i \in 1 .. Len(polls) : polls[i].options # <<>>
====
